---- MODULE Spec2Model ----
(***************************************************************************)
(* gitstatus (src/main.rs): one run of the prompt helper.  It runs         *)
(* `git status --porcelain --branch`, classifies every line of the output  *)
(* into five buckets, interprets the `##` branch header, counts the stash  *)
(* log and prints one line of ten fields.                                  *)
(*                                                                         *)
(* What a command prints is a sequence of bytes (0..255).  A string (&str, *)
(* String) is a sequence of Unicode code points; its length in the code is *)
(* the length of its UTF-8 form, and a slice is taken at a byte offset.    *)
(* The external commands (git, the stash log file) are the environment and *)
(* their results are drawn from small sets when the program asks for them. *)
(***************************************************************************)
EXTENDS Integers, Sequences, FiniteSets, TLC

\* ------------------------------------------------------------------------
\* Bounds of the model
\* ------------------------------------------------------------------------
\* number of lines the status query prints
MaxLines == 2
\* number of lines of the stash log
MaxStash == 1

\* ------------------------------------------------------------------------
\* Characters
\* ------------------------------------------------------------------------
\* the printable ASCII characters, U+0020 to U+007E in order (the three that
\* a string literal cannot hold directly are spelled out)
Printable ==
  << " ", "!", "quote", "#", "$", "%", "&", "'", "(", ")", "*", "+", ",", "-",
     ".", "/", "0", "1", "2", "3", "4", "5", "6", "7", "8", "9", ":", ";",
     "<", "=", ">", "?", "@", "A", "B", "C", "D", "E", "F", "G", "H", "I",
     "J", "K", "L", "M", "N", "O", "P", "Q", "R", "S", "T", "U", "V", "W",
     "X", "Y", "Z", "[", "backslash", "]", "^", "_", "backtick", "a", "b", "c", "d", "e",
     "f", "g", "h", "i", "j", "k", "l", "m", "n", "o", "p", "q", "r", "s",
     "t", "u", "v", "w", "x", "y", "z", "{", "|", "}", "~" >>

\* code point of a printable ASCII character
Ord(c) == 31 + (CHOOSE k \in 1..Len(Printable) : Printable[k] = c)

\* the string written as a tuple of printable ASCII characters
RECURSIVE S(_)
S(t) == IF t = <<>> THEN <<>> ELSE <<Ord(Head(t))>> \o S(Tail(t))

LF == 10
CR == 13
Space == Ord(" ")
Hash == Ord("#")
Question == Ord("?")
Plus == Ord("+")
Minus == Ord("-")
BracketOpen == Ord("[")
BracketClose == Ord("]")
Code_M == Ord("M")
Code_D == Ord("D")
Code_U == Ord("U")
\* U+FFFD REPLACEMENT CHARACTER, what from_utf8_lossy puts for bad bytes
Replacement == 65533

\* char::is_whitespace: the code points with the White_Space property
WhiteSpace ==
  (9..13) \cup {32, 133, 160, 5760} \cup (8192..8202)
    \cup {8232, 8233, 8239, 8287, 12288}

\* ------------------------------------------------------------------------
\* Program constants
\* ------------------------------------------------------------------------
\* ahead/behind are i32 (integer literal fallback of let mut ahead = 0)
I32Max == 2147483647
I32Min == 0 - I32Max - 1
\* exit code of a Rust process that panics
PanicExit == 101
\* line.len() < 3
MinLineLen == 3
\* line[2..]
PayloadOffset == 2

initial_commit_re == S(<<"I","n","i","t","i","a","l"," ","c","o","m","m","i","t"," ","o","n">>)
no_commits_re == S(<<"N","o"," ","c","o","m","m","i","t","s"," ","y","e","t"," ","o","n">>)
no_branch_re == S(<<"n","o"," ","b","r","a","n","c","h">>)
Dots == S(<<".",".",".">>)
CommaSpace == S(<<","," ">>)
AheadWord == S(<<"a","h","e","a","d">>)
BehindWord == S(<<"b","e","h","i","n","d">>)
\* "ahead ".len() and "behind ".len()
AheadSkip == 6
BehindSkip == 7

\* ------------------------------------------------------------------------
\* UTF-8
\* ------------------------------------------------------------------------
MinOf(X) == CHOOSE x \in X : \A y \in X : x <= y
MaxOf(X) == CHOOSE x \in X : \A y \in X : x >= y

\* a continuation byte 10xxxxxx
IsCont(b) == b >= 128 /\ b <= 191

\* number of bytes of the sequence a lead byte announces, 0 for a byte that
\* cannot start one
Utf8Width(b) ==
  IF b < 128 THEN 1
  ELSE IF b >= 194 /\ b <= 223 THEN 2
  ELSE IF b >= 224 /\ b <= 239 THEN 3
  ELSE IF b >= 240 /\ b <= 244 THEN 4
  ELSE 0

\* the second byte of a sequence: the range depends on the lead byte (no
\* overlong forms, no surrogates, nothing above U+10FFFF)
SecondOk(lead, b) ==
  IF lead = 224 THEN b >= 160 /\ b <= 191
  ELSE IF lead = 237 THEN b >= 128 /\ b <= 159
  ELSE IF lead = 240 THEN b >= 144 /\ b <= 191
  ELSE IF lead = 244 THEN b >= 128 /\ b <= 143
  ELSE IsCont(b)

\* a well-formed sequence starts at byte k of bs
ValidAt(bs, k) ==
  LET n == Utf8Width(bs[k])
  IN /\ n >= 1
     /\ k + n - 1 <= Len(bs)
     /\ n >= 2 => SecondOk(bs[k], bs[k + 1])
     /\ \A j \in (k + 2)..(k + n - 1) : IsCont(bs[j])

\* the code point of the well-formed sequence at byte k
CodePointAt(bs, k) ==
  LET n == Utf8Width(bs[k])
  IN IF n = 1 THEN bs[k]
     ELSE IF n = 2 THEN (bs[k] - 192) * 64 + (bs[k + 1] - 128)
     ELSE IF n = 3
     THEN (bs[k] - 224) * 4096 + (bs[k + 1] - 128) * 64 + (bs[k + 2] - 128)
     ELSE (bs[k] - 240) * 262144 + (bs[k + 1] - 128) * 4096
            + (bs[k + 2] - 128) * 64 + (bs[k + 3] - 128)

\* String::from_utf8 / the validation of BufRead::lines: the code points
\* when every byte belongs to a well-formed sequence, an error otherwise
FromUtf8(bs) ==
  LET starts == { k \in 1..Len(bs) : ~IsCont(bs[k]) }
      valid ==
        \A k \in 1..Len(bs) :
          IF IsCont(bs[k])
          THEN \E m \in 1..3 :
                 /\ k - m >= 1
                 /\ ~IsCont(bs[k - m])
                 /\ Utf8Width(bs[k - m]) > m
                 /\ \A j \in (k - m + 1)..(k - 1) : IsCont(bs[j])
          ELSE ValidAt(bs, k)
      n == Cardinality(starts)
      at(j) == CHOOSE k \in starts : Cardinality({ m \in starts : m <= k }) = j
  IN IF \A k \in 1..Len(bs) : bs[k] < 128 THEN [ok |-> TRUE, val |-> bs]
     ELSE IF ~valid THEN [ok |-> FALSE, val |-> <<>>]
     ELSE [ok |-> TRUE,
           val |-> SubSeq([j \in 1..n |-> CodePointAt(bs, at(j))], 1, n)]

\* how many bytes from_utf8_lossy replaces by one U+FFFD when no
\* well-formed sequence starts at the head of bs
BadPrefixLen(bs) ==
  LET n == Utf8Width(bs[1])
  IN IF n = 0 THEN 1
     ELSE IF Len(bs) < 2 \/ ~SecondOk(bs[1], bs[2]) THEN 1
     ELSE IF Len(bs) < 3 \/ ~IsCont(bs[3]) THEN 2
     ELSE 3

\* String::from_utf8_lossy
RECURSIVE Utf8Lossy(_)
Utf8Lossy(bs) ==
  IF bs = <<>> THEN <<>>
  ELSE IF ValidAt(bs, 1)
  THEN <<CodePointAt(bs, 1)>>
         \o Utf8Lossy(SubSeq(bs, Utf8Width(bs[1]) + 1, Len(bs)))
  ELSE <<Replacement>> \o Utf8Lossy(SubSeq(bs, BadPrefixLen(bs) + 1, Len(bs)))

\* the UTF-8 form of one code point and of a string
Utf8Char(c) ==
  IF c < 128 THEN <<c>>
  ELSE IF c < 2048 THEN <<192 + (c \div 64), 128 + (c % 64)>>
  ELSE IF c < 65536
  THEN <<224 + (c \div 4096), 128 + ((c \div 64) % 64), 128 + (c % 64)>>
  ELSE <<240 + (c \div 262144), 128 + ((c \div 4096) % 64),
         128 + ((c \div 64) % 64), 128 + (c % 64)>>

RECURSIVE Utf8Encode(_)
Utf8Encode(s) ==
  IF \A k \in 1..Len(s) : s[k] < 128 THEN s
  ELSE Utf8Char(Head(s)) \o Utf8Encode(Tail(s))

\* ------------------------------------------------------------------------
\* str helpers of the Rust standard library, as the code uses them
\* ------------------------------------------------------------------------
Digits == 48..57
DigitVal(c) == c - 48
DigitChar(d) == 48 + d

\* str::len: the number of bytes of the UTF-8 form
ByteLen(s) ==
  LET wide == { k \in 1..Len(s) : s[k] >= 128 }
  IN Len(s) + Cardinality(wide)
            + Cardinality({ k \in wide : s[k] >= 2048 })
            + Cardinality({ k \in wide : s[k] >= 65536 })

\* s[from..] with a byte offset: a panic when the offset lies past the end
\* or inside a character
SliceFrom(s, from) ==
  LET cut == { k \in 0..(IF Len(s) < from THEN Len(s) ELSE from) :
                 ByteLen(SubSeq(s, 1, k)) = from }
  IN IF cut = {} THEN [ok |-> FALSE, val |-> <<>>]
     ELSE [ok |-> TRUE, val |-> SubSeq(s, MinOf(cut) + 1, Len(s))]

\* str::trim_start: the string from its first character that is no white
\* space
TrimStart(s) ==
  LET first == CHOOSE k \in 1..(Len(s) + 1) :
                 /\ k = Len(s) + 1 \/ s[k] \notin WhiteSpace
                 /\ \A j \in 1..(k - 1) : s[j] \in WhiteSpace
  IN SubSeq(s, first, Len(s))

\* str::trim_end: the string up to its last character that is no white
\* space
TrimEnd(s) ==
  LET last == CHOOSE k \in 0..Len(s) :
                /\ k = 0 \/ s[k] \notin WhiteSpace
                /\ \A j \in (k + 1)..Len(s) : s[j] \in WhiteSpace
  IN SubSeq(s, 1, last)

\* str::trim
Trim(s) == TrimEnd(TrimStart(s))

\* str::trim_start_matches(c) / trim_end_matches(c): every leading /
\* trailing c is removed
TrimStartMatches(s, c) ==
  LET keep == { k \in 1..Len(s) : s[k] # c }
  IN IF keep = {} THEN <<>> ELSE SubSeq(s, MinOf(keep), Len(s))

TrimEndMatches(s, c) ==
  LET keep == { k \in 1..Len(s) : s[k] # c }
  IN IF keep = {} THEN <<>> ELSE SubSeq(s, 1, MaxOf(keep))

\* the 1-based positions where pat occurs in s
Matches(s, pat) ==
  { k \in 1..(Len(s) - Len(pat) + 1) : SubSeq(s, k, k + Len(pat) - 1) = pat }

\* str::contains / Regex::is_match of a literal pattern
Contains(s, pat) == Matches(s, pat) # {}

\* str::split(pat) for a non-empty string pattern, collected: the pieces
\* between the matches found from left to right, empty pieces included
RECURSIVE Split(_, _)
Split(s, pat) ==
  LET found == Matches(s, pat)
  IN IF found = {} THEN <<s>>
     ELSE <<SubSeq(s, 1, MinOf(found) - 1)>>
            \o Split(SubSeq(s, MinOf(found) + Len(pat), Len(s)), pat)

\* str::split_whitespace, collected: the maximal runs of characters that
\* are no white space
RECURSIVE SplitWhitespace(_)
SplitWhitespace(s) ==
  LET t == TrimStart(s)
      ws == { k \in 1..Len(t) : t[k] \in WhiteSpace }
  IN IF t = <<>> THEN <<>>
     ELSE IF ws = {} THEN <<t>>
     ELSE <<SubSeq(t, 1, MinOf(ws) - 1)>>
            \o SplitWhitespace(SubSeq(t, MinOf(ws) + 1, Len(t)))

\* [&str]::join(sep)
RECURSIVE Join(_, _)
Join(parts, sep) ==
  IF parts = <<>> THEN <<>>
  ELSE IF Len(parts) = 1 THEN parts[1]
  ELSE parts[1] \o sep \o Join(Tail(parts), sep)

\* read_until(b'\n') of BufRead::lines: the bytes of every line without
\* its "\n" and without one "\r" before it; no line for the empty rest
\* after the last "\n"
StripCR(l) ==
  IF l # <<>> /\ l[Len(l)] = CR THEN SubSeq(l, 1, Len(l) - 1) ELSE l

RECURSIVE RawLines(_)
RawLines(bs) ==
  LET nl == { k \in 1..Len(bs) : bs[k] = LF }
  IN IF bs = <<>> THEN <<>>
     ELSE IF nl = {} THEN <<bs>>
     ELSE <<StripCR(SubSeq(bs, 1, MinOf(nl) - 1))>>
            \o RawLines(SubSeq(bs, MinOf(nl) + 1, Len(bs)))

\* .map_while(Result::ok): the lines up to the first one that is not UTF-8
RECURSIVE WhileOk(_)
WhileOk(ls) ==
  IF ls = <<>> \/ ~FromUtf8(Head(ls)).ok THEN <<>>
  ELSE <<FromUtf8(Head(ls)).val>> \o WhileOk(Tail(ls))

\* stdout.lines().map_while(Result::ok)
Lines(bs) == WhileOk(RawLines(bs))

\* the digit loop of str::parse::<i32>: the value is accumulated with
\* checked_mul / checked_add (checked_sub after a minus sign), so a value
\* outside the 32 bits is an error like a character that is no digit
RECURSIVE ParseDigits(_, _, _)
ParseDigits(ds, acc, neg) ==
  IF ds = <<>> THEN [ok |-> TRUE, val |-> acc]
  ELSE IF Head(ds) \notin Digits THEN [ok |-> FALSE, val |-> 0]
  ELSE LET d == DigitVal(Head(ds))
       IN IF neg
          THEN IF acc < (I32Min + d + 9) \div 10
               THEN [ok |-> FALSE, val |-> 0]
               ELSE ParseDigits(Tail(ds), 10 * acc - d, neg)
          ELSE IF acc > (I32Max - d) \div 10
               THEN [ok |-> FALSE, val |-> 0]
               ELSE ParseDigits(Tail(ds), 10 * acc + d, neg)

\* str::parse::<i32>: optional sign, then at least one digit and nothing else
ParseI32(s) ==
  IF s = <<>> THEN [ok |-> FALSE, val |-> 0]
  ELSE LET ds == IF Head(s) \in {Plus, Minus} THEN Tail(s) ELSE s
       IN IF ds = <<>> THEN [ok |-> FALSE, val |-> 0]
          ELSE ParseDigits(ds, 0, Head(s) = Minus)

\* .parse().unwrap_or(0)
ParseOrZero(s) == LET r == ParseI32(s) IN IF r.ok THEN r.val ELSE 0

\* Display of an integer (format!("{}", n))
RECURSIVE NatToDec(_)
NatToDec(n) ==
  IF n < 10 THEN <<DigitChar(n)>>
  ELSE Append(NatToDec(n \div 10), DigitChar(n % 10))

\* digits of a negative number (i32::MIN has no positive counterpart)
RECURSIVE NegToDec(_)
NegToDec(n) ==
  IF n > 0 - 10 THEN <<DigitChar(0 - n)>>
  ELSE LET q == (n + 9) \div 10
       IN Append(NegToDec(q), DigitChar(10 * q - n))

ToDec(n) == IF n < 0 THEN <<Minus>> \o NegToDec(n) ELSE NatToDec(n)

\* Option<String>
None == [some |-> FALSE, val |-> <<>>]
Some(s) == [some |-> TRUE, val |-> s]
UnwrapOrDefault(o) == IF o.some THEN o.val ELSE <<>>

\* ------------------------------------------------------------------------
\* The pure parts of main()
\* ------------------------------------------------------------------------
\* faulty variant: a missing exit code counts as success (unwrap_or(0))
NotARepo_UnwrapOrZero(code) == (IF code.some THEN code.val ELSE 0) # 0

\* porcelain.status.code().unwrap_or(1) != 0
NotARepo(code) == (IF code.some THEN code.val ELSE 1) # 0

\* the StatusLine tuple built from a trimmed line of at least 3 bytes;
\* chars().nth(1).unwrap() panics on a line of one character, line[2..]
\* on a line whose byte 2 lies inside a character
StatusOf(line) ==
  LET payload == SliceFrom(line, PayloadOffset)
  IN IF Len(line) < 2 \/ ~payload.ok
     THEN [panic |-> TRUE, val |-> <<>>]
     ELSE [panic |-> FALSE, val |-> <<line[1], line[2], payload.val>>]

\* faulty variant: the ('U', _, _) arm is missing
Classify_NoConflictArm(status) ==
  IF status[1] = Hash /\ status[2] = Hash THEN "header"
  ELSE IF status[1] = Question /\ status[2] = Question THEN "untracked"
  ELSE IF status[2] = Code_M THEN "changed"
  ELSE IF status[2] = Code_D THEN "deleted"
  ELSE IF status[1] # Space THEN "staged"
  ELSE "dropped"

\* faulty variant: the ('#', '#', _) arm is missing, so a header falls
\* through to the later arms
Classify_NoHeaderArm(status) ==
  IF status[1] = Question /\ status[2] = Question THEN "untracked"
  ELSE IF status[2] = Code_M THEN "changed"
  ELSE IF status[2] = Code_D THEN "deleted"
  ELSE IF status[1] = Code_U THEN "conflicts"
  ELSE IF status[1] # Space THEN "staged"
  ELSE "dropped"

\* the arms of `match status`, first match wins
Classify(status) ==
  IF status[1] = Hash /\ status[2] = Hash THEN "header"
  ELSE IF status[1] = Question /\ status[2] = Question THEN "untracked"
  ELSE IF status[2] = Code_M THEN "changed"
  ELSE IF status[2] = Code_D THEN "deleted"
  ELSE IF status[1] = Code_U THEN "conflicts"
  ELSE IF status[1] # Space THEN "staged"
  ELSE "dropped"

\* what one line of the loop is: skipped, a panic, the header, or an entry
LineKind(rawLine) ==
  LET line == Trim(rawLine)
      status == StatusOf(line)
  IN IF ByteLen(line) < MinLineLen THEN "short"
     ELSE IF status.panic THEN "panic"
     ELSE Classify(status.val)

\* faulty variant: the "no branch" test comes first
HeaderKind_NoBranchFirst(git_ref) ==
  IF Contains(git_ref, no_branch_re) THEN "nobranch"
  ELSE IF Contains(git_ref, initial_commit_re) \/ Contains(git_ref, no_commits_re)
  THEN "nocommits"
  ELSE IF Len(Split(Trim(git_ref), Dots)) = 1 THEN "local"
  ELSE "tracking"

\* which branch of the if / else-if chain a header payload takes
HeaderKind(git_ref) ==
  IF Contains(git_ref, initial_commit_re) \/ Contains(git_ref, no_commits_re)
  THEN "nocommits"
  ELSE IF Contains(git_ref, no_branch_re) THEN "nobranch"
  ELSE IF Len(Split(Trim(git_ref), Dots)) = 1 THEN "local"
  ELSE "tracking"

\* status.2.split_whitespace().last().unwrap_or_default()
LastToken(s) ==
  LET toks == SplitWhitespace(s)
  IN IF toks = <<>> THEN <<>> ELSE toks[Len(toks)]

\* faulty variant: the closing bracket is not stripped
DivergenceText_KeepsBracket(rest) ==
  TrimStartMatches(Join(Tail(SplitWhitespace(rest)), <<Space>>), BracketOpen)

\* the text the `for div in ...` loop runs over: everything after the first
\* token of the upstream part, without the surrounding brackets
DivergenceText(rest) ==
  TrimEndMatches(
    TrimStartMatches(Join(Tail(SplitWhitespace(rest)), <<Space>>), BracketOpen), BracketClose)

\* one iteration of the loop over divergence.split(", "); a slice that
\* starts past the end of the segment or inside a character panics
DivStep(div, acc) ==
  IF Contains(div, AheadWord)
  THEN LET count == SliceFrom(div, AheadSkip)
       IN IF ~count.ok
          THEN [acc EXCEPT !.panic = TRUE]
          ELSE [acc EXCEPT !.ahead = ParseOrZero(Trim(count.val))]
  ELSE IF Contains(div, BehindWord)
  THEN LET count == SliceFrom(div, BehindSkip)
       IN IF ~count.ok
          THEN [acc EXCEPT !.panic = TRUE]
          ELSE [acc EXCEPT !.behind = ParseOrZero(Trim(count.val))]
  ELSE acc

RECURSIVE DivLoop(_, _)
DivLoop(divs, acc) ==
  IF divs = <<>> \/ acc.panic THEN acc
  ELSE DivLoop(Tail(divs), DivStep(Head(divs), acc))

\* the `else` branch of the header: local...upstream [divergence]
Tracking(git_ref, ahead0, behind0) ==
  LET parts == Split(Trim(git_ref), Dots)
      rest == parts[2]
      start == [ahead |-> ahead0, behind |-> behind0, panic |-> FALSE]
      res == IF Len(SplitWhitespace(rest)) > 1
             THEN DivLoop(Split(DivergenceText(rest), CommaSpace), start)
             ELSE start
  IN [branch |-> Some(parts[1]), ahead |-> res.ahead, behind |-> res.behind,
      panic |-> res.panic]

\* a git command the program ran, with what it did
Q(cmd, run) == [cmd |-> cmd, run |-> run]

\* faulty variant: the "+" is appended whenever a tag is found
get_tagname_or_hash_AlwaysPlus(tagRun, hashRun) ==
  IF ~tagRun.spawned
  THEN [panic |-> TRUE, branch |-> None,
        queries |-> <<Q("for-each-ref", tagRun)>>]
  ELSE LET tags == SplitWhitespace(Utf8Lossy(tagRun.stdout))
       IN IF tags # <<>>
          THEN [panic |-> FALSE,
                branch |-> Some(tags[1] \o (IF Len(tags) > 0 THEN <<Plus>> ELSE <<>>)),
                queries |-> <<Q("for-each-ref", tagRun)>>]
          ELSE IF ~hashRun.spawned
          THEN [panic |-> TRUE, branch |-> None,
                queries |-> <<Q("for-each-ref", tagRun),
                              Q("rev-parse --short", hashRun)>>]
          ELSE LET hash == Trim(Utf8Lossy(hashRun.stdout))
               IN [panic |-> FALSE,
                   branch |-> IF hash # <<>> THEN Some(hash) ELSE None,
                   queries |-> <<Q("for-each-ref", tagRun),
                                 Q("rev-parse --short", hashRun)>>]

\* get_tagname_or_hash(): tagRun and hashRun are what the two git commands
\* do when (and if) they are run; queries lists the commands that were run
get_tagname_or_hash(tagRun, hashRun) ==
  IF ~tagRun.spawned
  THEN [panic |-> TRUE, branch |-> None,
        queries |-> <<Q("for-each-ref", tagRun)>>]
  ELSE LET tags == SplitWhitespace(Utf8Lossy(tagRun.stdout))
       IN IF tags # <<>>
          THEN [panic |-> FALSE,
                branch |-> Some(tags[1] \o (IF Len(tags) > 1 THEN <<Plus>> ELSE <<>>)),
                queries |-> <<Q("for-each-ref", tagRun)>>]
          ELSE IF ~hashRun.spawned
          THEN [panic |-> TRUE, branch |-> None,
                queries |-> <<Q("for-each-ref", tagRun),
                              Q("rev-parse --short", hashRun)>>]
          ELSE LET hash == Trim(Utf8Lossy(hashRun.stdout))
               IN [panic |-> FALSE,
                   branch |-> IF hash # <<>> THEN Some(hash) ELSE None,
                   queries |-> <<Q("for-each-ref", tagRun),
                                 Q("rev-parse --short", hashRun)>>]

\* the ('#', '#', ref git_ref) arm as a whole
Header(git_ref, ahead0, behind0, tagRun, hashRun) ==
  LET kind == HeaderKind(git_ref)
      keep == [ahead |-> ahead0, behind |-> behind0, panic |-> FALSE,
               queries |-> <<>>]
  IN IF kind = "nocommits"
     THEN keep @@ [branch |-> Some(LastToken(git_ref))]
     ELSE IF kind = "nobranch"
     THEN LET r == get_tagname_or_hash(tagRun, hashRun)
          IN [branch |-> r.branch, ahead |-> ahead0, behind |-> behind0,
              panic |-> r.panic, queries |-> r.queries]
     ELSE IF kind = "local"
     THEN keep @@ [branch |-> Some(Trim(git_ref))]
     ELSE Tracking(git_ref, ahead0, behind0) @@ [queries |-> <<>>]

\* what File::open finds at the path of the stash log
NoFile == [kind |-> "absent", bytes |-> <<>>]
Directory == [kind |-> "directory", bytes |-> <<>>]
RegularFile(bytes) == [kind |-> "file", bytes |-> bytes]

\* format!("{}/logs/refs/stash", stdout.trim())
StashSuffix ==
  S(<<"/","l","o","g","s","/","r","e","f","s","/","s","t","a","s","h">>)
StashFile(stdout) == Trim(Utf8Lossy(stdout)) \o StashSuffix

\* get_stash(): gitDirRun is what git rev-parse --git-dir does, log what
\* lies at the path built from its output.  A file that cannot be opened
\* counts 0; an opened file counts its lines, whether they are UTF-8 or
\* not; an opened directory fails every read, lines() yields an error each
\* time and count() never ends.
get_stash(gitDirRun, log) ==
  IF ~gitDirRun.spawned
  THEN [outcome |-> "panic", stashed |-> 0, stash_file |-> None]
  ELSE LET path == Some(StashFile(gitDirRun.stdout))
       IN IF log.kind = "absent"
          THEN [outcome |-> "returns", stashed |-> 0, stash_file |-> path]
          ELSE IF log.kind = "directory"
          THEN [outcome |-> "never ends", stashed |-> 0, stash_file |-> path]
          ELSE [outcome |-> "returns", stashed |-> Len(RawLines(log.bytes)),
                stash_file |-> path]

\* faulty variant: the deleted bucket is not looked at
is_clean_IgnoresDeleted(ch, de, st, co, un) ==
  IF ch = <<>> /\ st = <<>> /\ co = <<>> /\ un = <<>>
  THEN 1 ELSE 0

\* is_clean()
is_clean(ch, de, st, co, un) ==
  IF ch = <<>> /\ de = <<>> /\ st = <<>> /\ co = <<>> /\ un = <<>>
  THEN 1 ELSE 0

\* format!("{} {} {} {} {} {} {} {} {} {}", ...)
Format(br, ah, be, st, co, ch, un, stashed, clean, de) ==
  Join(<<UnwrapOrDefault(br), ToDec(ah), ToDec(be), ToDec(Len(st)),
         ToDec(Len(co)), ToDec(Len(ch)), ToDec(Len(un)), ToDec(stashed),
         ToDec(clean), ToDec(Len(de))>>, <<Space>>)

\* ------------------------------------------------------------------------
\* What the environment can answer
\* ------------------------------------------------------------------------
NoCode == [some |-> FALSE, val |-> 0]
Code(n) == [some |-> TRUE, val |-> n]

\* a command that could not be spawned, and one that ran and printed bytes
SpawnFailed == [spawned |-> FALSE, stdout |-> <<>>]
Ran(bytes) == [spawned |-> TRUE, stdout |-> bytes]
NotRun == Ran(<<>>)

Hdr(payload) == S(<<"#","#"," ">>) \o payload
S_m == S(<<"m">>)
S_om == S(<<"o","/","m">>)
S_main == S(<<"m","a","i","n">>)
S_originMain == S(<<"o","r","i","g","i","n","/">>) \o S_main
S_gone == S(<<"g","o","n","e">>)
Ann(text) == <<Space, BracketOpen>> \o text \o <<BracketClose>>

\* the header of a branch with an upstream, as git prints it:
\* "## local...upstream [ahead a, behind b]"; a count that is absent leaves
\* its segment out, and no count at all leaves the annotation out
TrackLine(c) ==
  LET a == IF c.a.some THEN AheadWord \o <<Space>> \o ToDec(c.a.val) ELSE <<>>
      b == IF c.b.some THEN BehindWord \o <<Space>> \o ToDec(c.b.val) ELSE <<>>
      both == IF c.a.some /\ c.b.some THEN a \o CommaSpace \o b ELSE a \o b
  IN Hdr(c.local \o Dots \o c.up \o (IF both = <<>> THEN <<>> ELSE Ann(both)))

\* no annotation, [ahead 12], [behind 1] and [ahead 2, behind 1]
TrackCases ==
  { [local |-> S_m, up |-> S_om, a |-> NoCode, b |-> NoCode],
    [local |-> S_m, up |-> S_om, a |-> Code(12), b |-> NoCode],
    [local |-> S_m, up |-> S_om, a |-> NoCode, b |-> Code(1)],
    [local |-> S_main, up |-> S_originMain, a |-> Code(2), b |-> Code(1)] }

\* header lines with an upstream and a well-formed divergence annotation
GoodTrackingHeaders == { TrackLine(c) : c \in TrackCases }

\* header lines whose ahead count is not an integer
BadAheadHeaders ==
  { Hdr(S_m \o Dots \o S_om \o Ann(AheadWord \o S(<<" ","x">>))),
    Hdr(S_m \o Dots \o S_om \o Ann(AheadWord \o <<Space>>)),
    Hdr(S_m \o Dots \o S_om \o Ann(AheadWord)) }

\* a header line whose behind count is not an integer
BadBehindHeaders ==
  { Hdr(S_m \o Dots \o S_om
        \o Ann(AheadWord \o S(<<" ","2">>) \o CommaSpace
                  \o BehindWord \o S(<<" ","x">>))) }

\* header lines that carry a no-commits / initial-commit marker, with the
\* last whitespace-separated token of each; the last one ends with a
\* no-break space (U+00A0)
NoCommitsCases ==
  { [line |-> Hdr(no_commits_re \o <<Space>> \o S_main), last |-> S_main],
    [line |-> Hdr(initial_commit_re \o <<Space>> \o S_main), last |-> S_main],
    [line |-> Hdr(no_commits_re \o S(<<" ","m"," ","(">>) \o no_branch_re
                    \o S(<<")">>)),
     last |-> S(<<"b","r","a","n","c","h",")">>)],
    [line |-> Hdr(no_commits_re \o <<Space>> \o S_m \o <<160>>), last |-> S_m] }

NoCommitsHeaders == { c.line : c \in NoCommitsCases }

\* detached HEAD
DetachedHeaders ==
  { Hdr(S(<<"H","E","A","D"," ","(">>) \o no_branch_re \o S(<<")">>)) }

OtherHeaders ==
  { Hdr(S_m \o Dots \o S_om \o Ann(S_gone)), Hdr(S_main) }

HeaderLines ==
  GoodTrackingHeaders \cup BadAheadHeaders \cup BadBehindHeaders
    \cup NoCommitsHeaders \cup DetachedHeaders \cup OtherHeaders

\* the XY codes of the entries and the lines "XY path" git prints for them
IndexCodes == { Space, Code_M, Code_U, Ord("A") }
WorktreeCodes == { Space, Code_M, Code_D, Code_U, Ord("A") }
Entry(x, y) == <<x, y, Space, Ord("a")>>
EntryLines ==
  { Entry(x, y) : x \in IndexCodes, y \in WorktreeCodes }
    \cup { Entry(Question, Question) }

BlankLines == { <<>> }

\* lines with characters outside printable ASCII: a vertical tab before
\* "M  a"; U+00E9 and "M" (two characters, three bytes); "M", U+00E9, " a"
\* (byte 2 lies inside the second character)
WideLines ==
  { <<11>> \o Entry(Code_M, Space),
    <<233, Code_M>>,
    <<Code_M, 233, Space, Ord("a")>> }

TextLines == HeaderLines \cup EntryLines \cup BlankLines \cup WideLines

\* a line that is not UTF-8: " M " and the single byte 0xE9 (a file name
\* in Latin-1)
InvalidLines == { S(<<" ","M"," ">>) \o <<233>> }

\* the lines of the status output, as bytes
StatusLines == { Utf8Encode(l) : l \in TextLines } \cup InvalidLines

RECURSIVE SeqsUpTo(_, _)
SeqsUpTo(X, n) ==
  IF n = 0 THEN { <<>> }
  ELSE LET shorter == SeqsUpTo(X, n - 1)
       IN shorter \cup { Append(q, x) : q \in shorter, x \in X }

\* an output: every line followed by "\n"
RECURSIVE Unlines(_)
Unlines(ls) ==
  IF ls = <<>> THEN <<>> ELSE Head(ls) \o <<LF>> \o Unlines(Tail(ls))

\* what git status can do once spawned: succeed with up to MaxLines
\* lines, or fail (non-zero code, or none when killed by a signal)
StatusRuns ==
  { [finished |-> TRUE, code |-> Code(0), stdout |-> Unlines(ls)] :
      ls \in SeqsUpTo(StatusLines, MaxLines) }
  \cup
  { [finished |-> TRUE, code |-> c, stdout |-> Unlines(ls)] :
      c \in {NoCode, Code(1), Code(128)}, ls \in SeqsUpTo(StatusLines, 1) }

NotFinished == [finished |-> FALSE, code |-> NoCode, stdout |-> <<>>]

\* the tags git for-each-ref --count=2 can list, and the short hashes
S_v2 == S(<<"v","2">>)
S_v1 == S(<<"v","1">>)
TagLists == { <<>>, <<S_v2>>, <<S_v2, S_v1>> }
HashValues == { <<>>, S(<<"a","b","c","1">>) }

\* outputs of the tag command with a name that is no plain token: "v2"
\* and a no-break space; "v" and the byte 0xE9
OddTagOutputs == { <<118, 50, 194, 160, LF>>, <<118, 233, LF>> }

TagRuns ==
  { SpawnFailed } \cup { Ran(Utf8Encode(Unlines(tl))) : tl \in TagLists }
    \cup { Ran(bs) : bs \in OddTagOutputs }
HashRuns ==
  { SpawnFailed } \cup { Ran(Utf8Encode(h \o <<LF>>)) : h \in HashValues }

\* what git rev-parse --git-dir prints
S_gitDir == S(<<".","g","i","t">>)
GitDirRuns == { SpawnFailed, Ran(Utf8Encode(S_gitDir \o <<LF>>)) }

\* the stash log: absent, a directory (a ref below refs/stash has a
\* reflog), or a file of up to MaxStash lines
S_stashEntry == S(<<"W","I","P">>)
StashLogs ==
  { NoFile, Directory }
    \cup { RegularFile(Utf8Encode(Unlines(ls))) :
             ls \in SeqsUpTo({S_stashEntry}, MaxStash) }

\* ------------------------------------------------------------------------
\* State of one run
\* ------------------------------------------------------------------------
VARIABLES
  pc,          \* "start", "loop", "done" (printed), "exited" (exit(0)),
               \* "panicked", "counting" (get_stash() never returns)
  porcelain,   \* Output of the status query: exit code and stdout (bytes)
  lines,       \* stdout.lines().map_while(Result::ok): what the loop reads
  i,           \* 1-based index of the next line of the for loop
  untracked, staged, changed, deleted, conflicts,
  ahead, behind, branch,
  queries,     \* the git commands run so far, in order, with their results
  stash_file,  \* the path get_stash() built (Option<String>)
  stashed,     \* result of get_stash()
  out,         \* what was printed to standard output (Option<String>)
  exitCode     \* exit code of the program once it has terminated

vars == <<pc, porcelain, lines, i, untracked, staged, changed, deleted,
          conflicts, ahead, behind, branch, queries, stash_file, stashed, out,
          exitCode>>

buckets == <<untracked, staged, changed, deleted, conflicts>>
header == <<ahead, behind, branch>>

Init ==
  /\ pc = "start"
  /\ porcelain = NotFinished
  /\ lines = <<>>
  /\ i = 1
  /\ untracked = <<>> /\ staged = <<>> /\ changed = <<>>
  /\ deleted = <<>> /\ conflicts = <<>>
  /\ ahead = 0 /\ behind = 0 /\ branch = None
  /\ queries = <<>>
  /\ stash_file = None
  /\ stashed = 0
  /\ out = None
  /\ exitCode = NoCode

\* a panic: the process dies with code 101 and prints nothing more
Panic ==
  /\ pc' = "panicked"
  /\ exitCode' = Code(PanicExit)

\* Command::new("git") status ... .expect(): git cannot be spawned
StatusSpawnFails ==
  /\ pc = "start"
  /\ queries' = Append(queries, Q("status", SpawnFailed))
  /\ Panic
  /\ UNCHANGED <<porcelain, lines, i, buckets, header, stash_file, stashed, out>>

\* the status query ran: exit(0) when it failed, else enter the loop over
\* the lines of its output, which ends before the first line that is not
\* UTF-8
StatusQuery ==
  /\ pc = "start"
  /\ \E run \in StatusRuns :
       /\ porcelain' = run
       /\ queries' = Append(queries, Q("status", Ran(run.stdout)))
       /\ IF NotARepo(run.code)
          THEN /\ pc' = "exited"
               /\ exitCode' = Code(0)
               /\ UNCHANGED lines
          ELSE /\ pc' = "loop"
               /\ lines' = Lines(run.stdout)
               /\ UNCHANGED exitCode
  /\ UNCHANGED <<i, buckets, header, stash_file, stashed, out>>

AtLine == pc = "loop" /\ i <= Len(lines)
CurLine == Trim(lines[i])
CurStatus == StatusOf(CurLine).val

\* if line.len() < 3 { continue; }
SkipLine ==
  /\ AtLine
  /\ LineKind(lines[i]) = "short"
  /\ i' = i + 1
  /\ UNCHANGED <<pc, porcelain, lines, buckets, header, queries, stash_file,
                 stashed, out, exitCode>>

\* building the status tuple panics: .nth(1).unwrap() or line[2..]
LinePanics ==
  /\ AtLine
  /\ LineKind(lines[i]) = "panic"
  /\ Panic
  /\ UNCHANGED <<porcelain, lines, i, buckets, header, queries, stash_file, stashed, out>>

\* the header arm of the match; the tag and hash commands answer only
\* when get_tagname_or_hash() is called
ProcessHeader ==
  /\ AtLine
  /\ LineKind(lines[i]) = "header"
  /\ LET git_ref == CurStatus[3]
         asked == HeaderKind(git_ref) = "nobranch"
     IN \E tagRun \in (IF asked THEN TagRuns ELSE {NotRun}),
           hashRun \in (IF asked THEN HashRuns ELSE {NotRun}) :
          LET r == Header(git_ref, ahead, behind, tagRun, hashRun)
          IN /\ queries' = queries \o r.queries
             /\ IF r.panic
                THEN /\ Panic
                     /\ UNCHANGED <<i, header>>
                ELSE /\ branch' = r.branch
                     /\ ahead' = r.ahead
                     /\ behind' = r.behind
                     /\ i' = i + 1
                     /\ UNCHANGED <<pc, exitCode>>
  /\ UNCHANGED <<porcelain, lines, buckets, stash_file, stashed, out>>

\* the other arms of the match: push the tuple to its bucket, or drop it
ProcessEntry ==
  /\ AtLine
  /\ LET k == LineKind(lines[i])
         status == CurStatus
     IN /\ k \notin {"short", "panic", "header"}
        /\ untracked' = IF k = "untracked" THEN Append(untracked, status) ELSE untracked
        /\ changed' = IF k = "changed" THEN Append(changed, status) ELSE changed
        /\ deleted' = IF k = "deleted" THEN Append(deleted, status) ELSE deleted
        /\ conflicts' = IF k = "conflicts" THEN Append(conflicts, status) ELSE conflicts
        /\ staged' = IF k = "staged" THEN Append(staged, status) ELSE staged
  /\ i' = i + 1
  /\ UNCHANGED <<pc, porcelain, lines, header, queries, stash_file, stashed, out, exitCode>>

\* get_stash(): git rev-parse --git-dir cannot be spawned (the stash log
\* is not looked at)
StashSpawnFails ==
  /\ pc = "loop" /\ i > Len(lines)
  /\ \E gitDirRun \in GitDirRuns :
       /\ get_stash(gitDirRun, NoFile).outcome = "panic"
       /\ queries' = Append(queries, Q("rev-parse --git-dir", gitDirRun))
  /\ Panic
  /\ UNCHANGED <<porcelain, lines, i, buckets, header, stash_file, stashed,
                 out>>

\* get_stash(): the stash log opens but is a directory, and counting its
\* lines never ends: nothing is printed and the program does not exit
StashCountNeverEnds ==
  /\ pc = "loop" /\ i > Len(lines)
  /\ \E gitDirRun \in GitDirRuns, log \in StashLogs :
       LET r == get_stash(gitDirRun, log)
       IN /\ r.outcome = "never ends"
          /\ queries' = Append(queries, Q("rev-parse --git-dir", gitDirRun))
          /\ stash_file' = r.stash_file
  /\ pc' = "counting"
  /\ UNCHANGED <<porcelain, lines, i, buckets, header, stashed, out, exitCode>>

\* after the loop: get_stash() returns, then is_clean(), format!, print!,
\* Ok(())
Finish ==
  /\ pc = "loop" /\ i > Len(lines)
  /\ \E gitDirRun \in GitDirRuns, log \in StashLogs :
       LET r == get_stash(gitDirRun, log)
       IN /\ r.outcome = "returns"
          /\ queries' = Append(queries, Q("rev-parse --git-dir", gitDirRun))
          /\ stash_file' = r.stash_file
          /\ stashed' = r.stashed
          /\ out' = Some(Format(branch, ahead, behind, staged, conflicts,
                                changed, untracked, r.stashed,
                                is_clean(changed, deleted, staged, conflicts,
                                         untracked),
                                deleted))
  /\ pc' = "done"
  /\ exitCode' = Code(0)
  /\ UNCHANGED <<porcelain, lines, i, buckets, header>>

Next ==
  \/ StatusSpawnFails
  \/ StatusQuery
  \/ SkipLine
  \/ LinePanics
  \/ ProcessHeader
  \/ ProcessEntry
  \/ StashSpawnFails
  \/ StashCountNeverEnds
  \/ Finish

Spec == Init /\ [][Next]_vars

\* ------------------------------------------------------------------------
\* Properties
\* ------------------------------------------------------------------------
Printed == pc = "done"

\* the space-separated fields of the printed line
OutFields == Split(out.val, <<Space>>)

\* number of entries in the five buckets
Total ==
  Len(untracked) + Len(staged) + Len(changed) + Len(deleted) + Len(conflicts)

\* the lines the loop reads that are a ## header as git printed it
HeaderIdx == { k \in 1..Len(lines) : lines[k] \in HeaderLines }

\* the loop reads exactly one header line, and it is l
OnlyHeader(l) == \E k \in 1..Len(lines) : lines[k] = l /\ HeaderIdx = {k}

\* the tag / hash commands among the commands run
ResolverQueries ==
  SelectSeq(queries, LAMBDA q : q.cmd \in {"for-each-ref", "rev-parse --short"})

\* the step of the loop over an entry line "XY path" as git printed it
AtEntry == AtLine /\ lines[i] \in EntryLines

OnlyGrows(bucket, n) ==
  /\ Len(bucket') = Len(bucket) + n
  /\ SubSeq(bucket', 1, Len(bucket)) = bucket

\* C1: a line whose worktree code, as git printed it, is M adds one entry
\* to changed and none to the other buckets, whatever its index code
\* (the space of " M path" included).
C1_WorktreeMIsChanged ==
  [][ (AtEntry /\ lines[i][2] = Code_M)
        => /\ OnlyGrows(changed, 1)
           /\ UNCHANGED <<untracked, staged, deleted, conflicts>> ]_vars

\* C2 as stated: a line whose index code is U adds one entry to conflicts
\* and none to the other buckets, whatever its worktree code.
C2_IndexUIsConflicted ==
  [][ (AtEntry /\ lines[i][1] = Code_U)
        => /\ OnlyGrows(conflicts, 1)
           /\ UNCHANGED <<untracked, staged, changed, deleted>> ]_vars

\* a line the loop reads that starts with U and a one-byte character other
\* than M and D, and that keeps at least 3 bytes when trimmed
IndexUNotMD(l) ==
  /\ Len(l) >= 2
  /\ l[1] = Code_U
  /\ l[2] < 128 /\ l[2] \notin {Code_M, Code_D}
  /\ ByteLen(Trim(l)) >= MinLineLen

\* C2 amended: a line whose index code is U and whose worktree code is
\* neither M nor D adds one entry to conflicts (the two codes and the rest
\* of the trimmed line) and none to the other buckets.
C2_IndexUNotMDIsConflicted ==
  [][ (AtLine /\ IndexUNotMD(lines[i]))
        => /\ OnlyGrows(conflicts, 1)
           /\ conflicts'[Len(conflicts')]
                = <<Code_U, lines[i][2], SubSeq(Trim(lines[i]), 3, Len(Trim(lines[i])))>>
           /\ UNCHANGED <<untracked, staged, changed, deleted>> ]_vars

C2_Witness ==
  /\ pc = "loop" /\ i = 2
  /\ lines[1] = Entry(Code_U, Ord("A"))
  /\ conflicts = << <<Code_U, Ord("A"), S(<<" ", "a">>)>> >>

\* C3: a line whose worktree code, as git printed it, is D and whose index
\* code is not M adds one entry to deleted and none to the other buckets
\* (the unstaged deletion " D path" included).
C3_WorktreeDIsDeleted ==
  [][ (AtEntry /\ lines[i][2] = Code_D /\ lines[i][1] # Code_M)
        => /\ OnlyGrows(deleted, 1)
           /\ UNCHANGED <<untracked, staged, changed, conflicts>> ]_vars

\* a step of the loop appends at most one entry over the five buckets and
\* leaves every entry already there in place
AtMostOnePush ==
  \E nu \in {0, 1}, ns \in {0, 1}, nc \in {0, 1}, nd \in {0, 1}, nk \in {0, 1} :
    /\ nu + ns + nc + nd + nk <= 1
    /\ OnlyGrows(untracked, nu)
    /\ OnlyGrows(staged, ns)
    /\ OnlyGrows(changed, nc)
    /\ OnlyGrows(deleted, nd)
    /\ OnlyGrows(conflicts, nk)

\* a ## header: both codes are #
BothCodesHash(l) == Len(l) >= 2 /\ l[1] = Hash /\ l[2] = Hash

\* a line that can contribute when length is counted in characters: at
\* least 3 characters once trimmed, and not a ## header
EligibleChars(l) ==
  LET t == Trim(l)
  IN Len(t) >= MinLineLen /\ ~BothCodesHash(t)

\* a line that can contribute when length is counted as line.len() counts
\* it, in UTF-8 bytes: at least 3 bytes once trimmed, and not a ## header
EligibleBytes(l) ==
  LET t == Trim(l)
  IN ByteLen(t) >= MinLineLen /\ ~BothCodesHash(t)

C4_SumChars ==
  Total <= Cardinality({ k \in 1..Len(lines) : k < i /\ EligibleChars(lines[k]) })

C4_StepChars ==
  AtLine => /\ AtMostOnePush
            /\ ~EligibleChars(lines[i]) => UNCHANGED buckets

C4_SumBytes ==
  Total <= Cardinality({ k \in 1..Len(lines) : k < i /\ EligibleBytes(lines[k]) })

C4_StepBytes ==
  AtLine => /\ AtMostOnePush
            /\ ~EligibleBytes(lines[i]) => UNCHANGED buckets

C5_CleanIffAllZero ==
  Printed =>
    LET f == OutFields
        zero == S(<<"0">>)
        one == S(<<"1">>)
    IN /\ Len(f) = 10
       /\ f[9] \in {zero, one}
       /\ f[9] = one <=>
            (f[4] = zero /\ f[5] = zero /\ f[6] = zero /\ f[7] = zero /\ f[10] = zero)

C5_Witness ==
  /\ Printed
  /\ OutFields[9] = S(<<"0">>)
  /\ OutFields[10] = S(<<"1">>)
  /\ \A k \in 4..7 : OutFields[k] = S(<<"0">>)
  /\ OutFields[8] = S(<<"1">>)

\* C6: once the status query has finished with a non-zero or absent exit
\* code the program has exited with code 0, nothing is printed, no line is
\* classified and no other query is run.
C6_NotARepoExitsSilently ==
  (porcelain.finished /\ (~porcelain.code.some \/ porcelain.code.val # 0)) =>
    /\ pc = "exited"
    /\ exitCode = Code(0)
    /\ out = None
    /\ Total = 0 /\ i = 1
    /\ branch = None /\ ahead = 0 /\ behind = 0
    /\ Len(queries) = 1 /\ queries[1].cmd = "status"

C6_Witness ==
  /\ pc = "exited"
  /\ porcelain.code = Code(128)
  /\ porcelain.stdout # <<>>
  /\ exitCode = Code(0)

\* C7: for the header "## local...upstream" with an optional annotation
\* [ahead N], [behind M] or [ahead N, behind M], the printed branch is
\* local, ahead is N (0 without an ahead segment) and behind is M (0
\* without a behind segment).
C7_TrackingHeader ==
  Printed =>
    \A c \in TrackCases :
      OnlyHeader(TrackLine(c)) =>
        LET a == IF c.a.some THEN c.a.val ELSE 0
            b == IF c.b.some THEN c.b.val ELSE 0
        IN /\ branch = Some(c.local)
           /\ ahead = a /\ behind = b
           /\ OutFields[1] = c.local
           /\ OutFields[2] = ToDec(a)
           /\ OutFields[3] = ToDec(b)

C7_Witness ==
  /\ Printed
  /\ OnlyHeader(Hdr(S_main \o Dots \o S_originMain
       \o Ann(AheadWord \o S(<<" ", "2">>) \o CommaSpace
                 \o BehindWord \o S(<<" ", "1">>))))
  /\ SubSeq(out.val, 1, 9) = S_main \o S(<<" ", "2", " ", "1", " ">>)

\* C8: for the detached-HEAD header the printed branch is the first tag,
\* with "+" exactly when a second tag was listed; without a tag it is the
\* short hash, or empty when that is empty too; the hash command is run
\* only when no tag was listed, and ahead and behind stay 0.
C8_DetachedHead ==
  Printed =>
    \A h \in DetachedHeaders :
      OnlyHeader(h) =>
        LET rq == ResolverQueries
        IN /\ Len(rq) >= 1 /\ rq[1].cmd = "for-each-ref"
           /\ ahead = 0 /\ behind = 0
           /\ \A tl \in TagLists :
                rq[1].run = Ran(Utf8Encode(Unlines(tl))) =>
                  IF tl # <<>>
                  THEN /\ Len(rq) = 1
                       /\ OutFields[1] =
                            tl[1] \o (IF Len(tl) = 2 THEN <<Plus>> ELSE <<>>)
                  ELSE /\ Len(rq) = 2 /\ rq[2].cmd = "rev-parse --short"
                       /\ \A hv \in HashValues :
                            rq[2].run = Ran(Utf8Encode(hv \o <<LF>>)) =>
                              /\ OutFields[1] = hv
                              /\ branch.some <=> hv # <<>>

C8_Witness ==
  /\ Printed
  /\ \E h \in DetachedHeaders : OnlyHeader(h)
  /\ OutFields[1] = S_v2 \o <<Plus>>
  /\ Len(ResolverQueries) = 1

\* C9: a header whose ahead or behind count does not parse as an integer
\* never aborts the run: the line is passed and the count is 0.
C9_BadCountNeverAborts ==
  [][ (AtLine /\ lines[i] \in BadAheadHeaders \cup BadBehindHeaders)
        => /\ pc' = "loop" /\ i' = i + 1
           /\ lines[i] \in BadAheadHeaders => ahead' = 0
           /\ lines[i] \in BadBehindHeaders => behind' = 0 ]_vars

\* C10: for a header with the no-commits or initial-commit marker the
\* printed branch is the last whitespace-separated token of the header,
\* ahead and behind are 0, and the tag / hash commands are not run, also
\* when the header contains the "no branch" marker as well.
C10_NoCommitsHeader ==
  \A c \in NoCommitsCases :
    OnlyHeader(c.line) =>
      /\ ResolverQueries = <<>>
      /\ Printed =>
           /\ branch = Some(c.last)
           /\ OutFields[1] = c.last
           /\ ahead = 0 /\ behind = 0
           /\ OutFields[2] = S(<<"0">>) /\ OutFields[3] = S(<<"0">>)

C10_Witness ==
  /\ Printed
  /\ \E c \in NoCommitsCases :
       /\ Contains(c.line, no_branch_re)
       /\ OnlyHeader(c.line)
       /\ OutFields[1] = S(<<"b","r","a","n","c","h",")">>)
====
